---- MODULE Spec2Model ----
(***************************************************************************)
(* Real-time collaboration hub of the kanban worker: one BoardRoom durable *)
(* object per board keeps a Map from accepted WebSockets to the identity   *)
(* that owns them, authenticates upgrades against the sessions and         *)
(* board_members tables, and fans events out over state.getWebSockets().   *)
(***************************************************************************)
EXTENDS Integers, Sequences, FiniteSets, TLC

\* ---------------------------------------------------------------- bounds
MaxConns == 2
MaxPending == 1

\* ------------------------------------------------------------- universe
Conns == 1..MaxConns
Slots == 1..MaxPending
Boards == {"B1", "B2"}
Users == {"A", "B"}

\* A query parameter that is absent or empty: `!token` is true for both.
Missing == ""
Tokens == {"tA", "tB"}
TokenInputs == Tokens \cup {Missing}
BoardInputs == Boards \cup {Missing}

\* users table: username and display_name of each user id.
UserRow(u) ==
    IF u = "A" THEN [user_id |-> "A", username |-> "alice", display_name |-> "Alice"]
    ELSE [user_id |-> "B", username |-> "bob", display_name |-> ""]

\* hashToken: the digest stored in sessions.token_hash.
hashToken(t) == <<"sha256", t>>

\* The session rows that were ever issued: token_hash -> user_id.
SessionOwner(h) ==
    IF h = hashToken("tA") THEN "A" ELSE IF h = hashToken("tB") THEN "B" ELSE "none"

NoConn == 0
NoReq == [pc |-> "idle"]
NoMsg == [type |-> "none"]

VARIABLES
    sessions,    \* sessions[h]: the Map<WebSocket, {userId, username}> of hub h
    sock,        \* sock[c]: transport state of WebSocket c
    sockHub,     \* sockHub[c]: the hub whose state accepted c
    reqs,        \* reqs[s]: an upgrade request suspended at an await
    dbSessions,  \* token hashes of the rows of sessions with expires_at > now
    members,     \* rows of board_members as <<board_id, user_id>>
    log,         \* the send calls of the last handler, in call order
    lastOp,      \* the last handler that ran and what it returned
    onlineUsers  \* onlineUsers[c]: state.onlineUsers of the page behind socket c

vars == <<sessions, sock, sockHub, reqs, dbSessions, members, log, lastOp, onlineUsers>>

\* ------------------------------------------------------------ JSON wire
\* JSON.stringify(message): the text frame carrying the message.  Every value
\* the hub serialises is built from strings, numbers and parsed JSON, so no
\* property is dropped.
JSONStringify(message) == <<"json", message>>

Malformed == <<"text", "{not json">>

\* JSON.parse throws on text that is not JSON.
ParseThrows(frame) == frame[1] /= "json"
JSONParse(frame) == frame[2]

\* { ...a, ...b }: the properties of b override those of a.
Spread(a, b) == [k \in (DOMAIN a) \cup (DOMAIN b) |-> IF k \in DOMAIN b THEN b[k] ELSE a[k]]

\* -------------------------------------------------------------- helpers
\* session.display_name || session.username
NameOf(row) == IF row.display_name /= "" THEN row.display_name ELSE row.username

\* The getter uniqueUserCount: add every session's userId to a Set, return its size.
RECURSIVE AddUserIds(_, _, _)
AddUserIds(map, todo, uniqueUsers) ==
    IF todo = {} THEN uniqueUsers
    ELSE LET c == CHOOSE x \in todo : TRUE
         IN AddUserIds(map, todo \ {c}, uniqueUsers \cup {map[c].userId})

sessionsSize(map) == Cardinality(DOMAIN map)

uniqueUserCount(map) == Cardinality(AddUserIds(map, DOMAIN map, {}))

\* state.getWebSockets(): the accepted sockets of the hub that the runtime
\* has not discarded yet, in the order they were accepted.  sk and hb are the
\* transport state and the owning hub of every socket.
InList(sk, hb, c, h) == hb[c] = h /\ sk[c] \in {"open", "lost", "errored"}

RECURSIVE SocketsFrom(_, _, _, _)
SocketsFrom(sk, hb, h, c) ==
    IF c > MaxConns THEN <<>>
    ELSE (IF InList(sk, hb, c, h) THEN <<c>> ELSE <<>>) \o SocketsFrom(sk, hb, h, c + 1)

getWebSocketsOfAnyHub(sk, hb, h) == SocketsFrom(sk, [c \in Conns |-> h], h, 1)

getWebSockets(sk, hb, h) == SocketsFrom(sk, hb, h, 1)

\* ws.send(json): throws unless the transport is still open.
Send(sk, c, json) == [to |-> c, frame |-> json, ok |-> sk[c] = "open"]

\* The loop of broadcast: one try { ws.send(json) } per socket other than exclude.
RECURSIVE BroadcastOverNoCatch(_, _, _, _)
BroadcastOverNoCatch(sk, list, json, exclude) ==
    IF list = <<>> THEN <<>>
    ELSE IF Head(list) = exclude THEN BroadcastOverNoCatch(sk, Tail(list), json, exclude)
    ELSE IF ~Send(sk, Head(list), json).ok THEN <<Send(sk, Head(list), json)>>
    ELSE <<Send(sk, Head(list), json)>> \o BroadcastOverNoCatch(sk, Tail(list), json, exclude)

RECURSIVE BroadcastOver(_, _, _, _)
BroadcastOver(sk, list, json, exclude) ==
    IF list = <<>> THEN <<>>
    ELSE (IF Head(list) /= exclude THEN <<Send(sk, Head(list), json)>> ELSE <<>>)
         \o BroadcastOver(sk, Tail(list), json, exclude)

broadcastNoExclude(sk, hb, h, message, exclude) ==
    BroadcastOver(sk, getWebSockets(sk, hb, h), JSONStringify(message), NoConn)

broadcast(sk, hb, h, message, exclude) ==
    BroadcastOver(sk, getWebSockets(sk, hb, h), JSONStringify(message), exclude)

Op(name, h, c, status, msg) ==
    [op |-> name, hub |-> h, conn |-> c, status |-> status, msg |-> msg]

\* The least free request slot and the least socket id not in use; the id of a
\* socket the runtime discarded names a new WebSocket object afterwards.
FreeSlot(s) == reqs[s] = NoReq /\ \A t \in Slots : t < s => reqs[t] /= NoReq
FreshConn(c) == sock[c] = "none" /\ \A d \in Conns : d < c => sock[d] /= "none"

\* ---------------------------------------------------------- client page
PresenceTypes == {"user_joined", "user_left"}

\* msg.payload.onlineCount || 0
OnlineCountOrZero(payload) ==
    IF "onlineCount" \in DOMAIN payload THEN payload.onlineCount ELSE 0

\* handleWSMessage(msg): what the page shows as the number of users online
\* after a message, given what it showed before.
handleWSMessage(count, msg) ==
    IF msg.type \in PresenceTypes THEN OnlineCountOrZero(msg.payload) ELSE count

\* ws.onmessage for the frames of lg that reached socket c, in order.
RECURSIVE OnMessages(_, _, _)
OnMessages(count, lg, c) ==
    IF lg = <<>> THEN count
    ELSE OnMessages(IF Head(lg).to = c /\ Head(lg).ok
                    THEN handleWSMessage(count, JSONParse(Head(lg).frame))
                    ELSE count,
                    Tail(lg), c)

\* The pages after a handler made the sends lg; a page whose socket is no
\* longer open shows nothing that anyone observes, and a new page starts at 0.
Clients(counts, lg, sk) ==
    [c \in Conns |-> IF sk[c] = "open" THEN OnMessages(counts[c], lg, c) ELSE 0]

\* ----------------------------------------------------------------- Init
Init ==
    /\ sessions = [h \in Boards |-> <<>>]
    /\ sock = [c \in Conns |-> "none"]
    /\ sockHub = [c \in Conns |-> "none"]
    /\ reqs = [s \in Slots |-> NoReq]
    /\ dbSessions = {hashToken("tA"), hashToken("tB")}
    /\ members = {<<"B1", "A">>, <<"B1", "B">>, <<"B2", "A">>}
    /\ log = <<>>
    /\ lastOp = Op("init", "none", NoConn, 0, NoMsg)
    /\ onlineUsers = [c \in Conns |-> 0]

\* ------------------------------------------------------ upgrade handling
\* BoardRoom.fetch with an Upgrade header, up to the first await: the
\* parameter check of handleWebSocket.
handleWebSocketEntryTokenOnly(h, token, boardId, s) ==
    IF token = Missing
    THEN /\ lastOp' = Op("upgrade", h, NoConn, 400, NoMsg)
         /\ UNCHANGED reqs
    ELSE /\ reqs' = [reqs EXCEPT ![s] =
                        [pc |-> "session", hub |-> h, token |-> token, boardId |-> boardId,
                         gone |-> FALSE]]
         /\ lastOp' = Op("upgrade_begin", h, NoConn, 0, NoMsg)

handleWebSocketEntry(h, token, boardId, s) ==
    IF token = Missing \/ boardId = Missing
    THEN /\ lastOp' = Op("upgrade", h, NoConn, 400, NoMsg)
         /\ UNCHANGED reqs
    ELSE /\ reqs' = [reqs EXCEPT ![s] =
                        [pc |-> "session", hub |-> h, token |-> token, boardId |-> boardId,
                         gone |-> FALSE]]
         /\ lastOp' = Op("upgrade_begin", h, NoConn, 0, NoMsg)

\* env.BOARD_ROOM.idFromName(name): the object id derived from a name, and
\* env.BOARD_ROOM.get(id): the one object of that id.  A hub is written by the
\* name of its board.
idFromName(name) == <<"BOARD_ROOM", name>>
get(id) == id[2]

\* The stub the upgrade route forwards to, and the stub the broadcast route posts to.
wsStub(boardId) == get(idFromName(boardId))

broadcastStubShared(boardId) == get(idFromName("B1"))

broadcastStub(boardId) == get(idFromName(boardId))

\* app.get('/api/ws/:boardId'): the worker route in front of the hub.
WsRoute(token, boardId) ==
    \E s \in Slots :
        /\ FreeSlot(s)
        /\ IF token = Missing
           THEN /\ lastOp' = Op("ws_route", boardId, NoConn, 400, NoMsg)
                /\ UNCHANGED reqs
           ELSE handleWebSocketEntry(wsStub(boardId), token, boardId, s)
        /\ log' = <<>>
        /\ UNCHANGED <<sessions, sock, sockHub, dbSessions, members>>
        /\ onlineUsers' = Clients(onlineUsers, log', sock')

\* An upgrade request handed to the fetch of hub h as it stands, with either
\* parameter possibly absent from the URL.
HubUpgrade(h, token, boardId) ==
    \E s \in Slots :
        /\ FreeSlot(s)
        /\ boardId \in {h, Missing}
        /\ handleWebSocketEntry(h, token, boardId, s)
        /\ log' = <<>>
        /\ UNCHANGED <<sessions, sock, sockHub, dbSessions, members>>
        /\ onlineUsers' = Clients(onlineUsers, log', sock')

\* The sessions JOIN users query: the row for the token hash, if it is live.
SessionQueryAnyRow(tokenHash) == {UserRow(SessionOwner(tokenHash))}

SessionQuery(tokenHash) ==
    IF tokenHash \in dbSessions THEN {UserRow(SessionOwner(tokenHash))} ELSE {}

\* handleWebSocket resumed after the session query.
SessionLookup(s) ==
    /\ reqs[s] /= NoReq
    /\ reqs[s].pc = "session"
    /\ LET r == reqs[s]
           found == SessionQuery(hashToken(r.token))
       IN IF found = {}
          THEN /\ reqs' = [reqs EXCEPT ![s] = NoReq]
               /\ lastOp' = Op("upgrade", r.hub, NoConn, 401, NoMsg)
          ELSE /\ reqs' = [reqs EXCEPT ![s] =
                              [pc |-> "access", hub |-> r.hub, token |-> r.token,
                               boardId |-> r.boardId, gone |-> r.gone,
                               session |-> CHOOSE row \in found : TRUE]]
               /\ lastOp' = Op("upgrade_session", r.hub, NoConn, 0, NoMsg)
    /\ log' = <<>>
    /\ UNCHANGED <<sessions, sock, sockHub, dbSessions, members>>
    /\ onlineUsers' = Clients(onlineUsers, log', sock')

\* SELECT 1 FROM board_members WHERE board_id = ? AND user_id = ?
AccessQueryAny(boardId, userId) == \E b \in Boards : <<b, userId>> \in members

AccessQuery(boardId, userId) == <<boardId, userId>> \in members

\* this.sessions.set(ws, value)
SetReplacingUser(map, ws, value) ==
    [c \in {d \in DOMAIN map : map[d].userId /= value.userId} \cup {ws} |->
        IF c = ws THEN value ELSE map[c]]

Set(map, ws, value) ==
    [c \in (DOMAIN map) \cup {ws} |-> IF c = ws THEN value ELSE map[c]]

\* The two announcements of a join: server.send(...) and then
\* this.broadcast(..., server).
GreetOthersLater(sk, hb, h, server, message) ==
    <<Send(sk, server, JSONStringify(message))>>
    \o broadcast(sk, hb, h,
                 [message EXCEPT !.payload.onlineCount = message.payload.onlineCount + 1],
                 server)

GreetOthersFirst(sk, hb, h, server, message) ==
    broadcast(sk, hb, h, message, server) \o <<Send(sk, server, JSONStringify(message))>>

Greet(sk, hb, h, server, message) ==
    <<Send(sk, server, JSONStringify(message))>> \o broadcast(sk, hb, h, message, server)

UserJoined(row, count) ==
    [type |-> "user_joined",
     payload |-> [userId |-> row.user_id, username |-> NameOf(row), onlineCount |-> count]]

\* handleWebSocket resumed after the membership query: reject, or accept the
\* socket, store its session, greet it and notify the others.
AccessLookup(s) ==
    /\ reqs[s] /= NoReq
    /\ reqs[s].pc = "access"
    /\ LET r == reqs[s]
           h == r.hub
       IN IF ~AccessQuery(r.boardId, r.session.user_id)
          THEN /\ lastOp' = Op("upgrade", h, NoConn, 403, NoMsg)
               /\ log' = <<>>
               /\ UNCHANGED <<sessions, sock, sockHub>>
          ELSE \E server \in Conns :
               /\ FreshConn(server)
               /\ sock' = [sock EXCEPT ![server] = "open"]
               /\ sockHub' = [sockHub EXCEPT ![server] = h]
               /\ sessions' = [sessions EXCEPT ![h] =
                     Set(sessions[h], server,
                         [userId |-> r.session.user_id, username |-> NameOf(r.session)])]
               /\ LET message == UserJoined(r.session, uniqueUserCount(sessions'[h]))
                  IN /\ log' = Greet(sock', sockHub', h, server, message)
                     /\ lastOp' = Op("upgrade", h, server, 101, message)
    /\ reqs' = [reqs EXCEPT ![s] = NoReq]
    /\ UNCHANGED <<dbSessions, members>>
    /\ onlineUsers' = Clients(onlineUsers, log', sock')

\* The client of a suspended upgrade goes away (tab closed, network lost)
\* before the response is written.
ClientAborts(s) ==
    /\ reqs[s] /= NoReq
    /\ ~reqs[s].gone
    /\ reqs' = [reqs EXCEPT ![s].gone = TRUE]
    /\ log' = <<>>
    /\ lastOp' = Op("client_aborts", reqs[s].hub, NoConn, 0, NoMsg)
    /\ UNCHANGED <<sessions, sock, sockHub, dbSessions, members>>
    /\ onlineUsers' = Clients(onlineUsers, log', sock')

\* The runtime may drop the request of a client that went away while it is
\* suspended at an await; handleWebSocket itself never looks at the state of
\* the request, so a continuation the runtime still runs goes on as usual.
RuntimeCancels(s) ==
    /\ reqs[s] /= NoReq
    /\ reqs[s].gone
    /\ reqs' = [reqs EXCEPT ![s] = NoReq]
    /\ log' = <<>>
    /\ lastOp' = Op("upgrade_cancelled", reqs[s].hub, NoConn, 0, NoMsg)
    /\ UNCHANGED <<sessions, sock, sockHub, dbSessions, members>>
    /\ onlineUsers' = Clients(onlineUsers, log', sock')

\* ------------------------------------------------------ client messages
\* Frames a client may put on its socket.
InFrames ==
    { JSONStringify([type |-> "ping", payload |-> [x |-> 0]]),
      JSONStringify([type |-> "cursor_move", payload |-> [x |-> 5]]),
      JSONStringify([type |-> "user_left",
                     payload |-> [userId |-> "Z", username |-> "zed", onlineCount |-> 0]]),
      Malformed }

CursorFamily == {"cursor_move", "card_drag_start", "card_drag_end"}

\* The message webSocketMessage builds for a parsed frame of a type other than ping.
OutboundUserIdOnly(data, session) ==
    [type |-> data.type, payload |-> Spread(data.payload, [userId |-> session.userId])]

Outbound(data, session) ==
    IF data.type \in CursorFamily
    THEN [type |-> data.type,
          payload |-> Spread(data.payload,
                             [userId |-> session.userId, username |-> session.username])]
    ELSE [type |-> data.type,
          payload |-> Spread(data.payload, [userId |-> session.userId])]

\* case 'ping': ws.send(JSON.stringify({ type: 'pong' }))
PingReplyToAll(sk, hb, h, ws) == broadcast(sk, hb, h, [type |-> "pong"], NoConn)

PingReply(sk, hb, h, ws) == <<Send(sk, ws, JSONStringify([type |-> "pong"]))>>

\* catch (e) { console.error(...) }: the Map after a frame that failed to parse.
catchMessageErrorDropsSession(map, ws) == [c \in (DOMAIN map) \ {ws} |-> map[c]]

catchMessageError(map, ws) == map

\* this.sessions.get(ws): the stored session, or nothing.
GetOrAnonymous(map, ws) ==
    IF ws \in DOMAIN map THEN {map[ws]} ELSE {[userId |-> "unknown", username |-> "unknown"]}

Get(map, ws) == IF ws \in DOMAIN map THEN {map[ws]} ELSE {}

\* webSocketMessage(ws, message)
WebSocketMessage(ws, frame) ==
    /\ sock[ws] = "open"
    /\ LET h == sockHub[ws]
       IN IF Get(sessions[h], ws) = {}
          THEN /\ log' = <<>>
               /\ lastOp' = Op("message_dropped", h, ws, 0, NoMsg)
               /\ UNCHANGED sessions
          ELSE IF ParseThrows(frame)
          THEN /\ log' = <<>>
               /\ lastOp' = Op("message_error", h, ws, 0, NoMsg)
               /\ sessions' = [sessions EXCEPT ![h] = catchMessageError(sessions[h], ws)]
          ELSE LET data == JSONParse(frame)
                   session == CHOOSE x \in Get(sessions[h], ws) : TRUE
               IN IF data.type = "ping"
                  THEN /\ log' = PingReply(sock, sockHub, h, ws)
                       /\ lastOp' = Op("ping", h, ws, 0, [type |-> "pong"])
                       /\ UNCHANGED sessions
                  ELSE /\ log' = broadcast(sock, sockHub, h, Outbound(data, session), ws)
                       /\ lastOp' = Op("message", h, ws, 0, Outbound(data, session))
                       /\ UNCHANGED sessions
    /\ UNCHANGED <<sock, sockHub, reqs, dbSessions, members>>
    /\ onlineUsers' = Clients(onlineUsers, log', sock')

\* ------------------------------------------------------- leaving the hub
\* The peer closes or the connection breaks: sends on the socket now throw,
\* and the runtime will call webSocketClose or webSocketError for it.
Disconnect(c) ==
    /\ sock[c] = "open"
    /\ sock' = [sock EXCEPT ![c] = "lost"]
    /\ log' = <<>>
    /\ lastOp' = Op("disconnect", sockHub[c], c, 0, NoMsg)
    /\ UNCHANGED <<sessions, sockHub, reqs, dbSessions, members>>
    /\ onlineUsers' = Clients(onlineUsers, log', sock')

\* this.sessions.delete(ws)
DeleteNothing(map, ws) == map

Delete(map, ws) == [c \in (DOMAIN map) \ {ws} |-> map[c]]

UserLeftCountBefore(session, count) ==
    [type |-> "user_left",
     payload |-> [userId |-> session.userId, username |-> session.username,
                  onlineCount |-> count + 1]]

UserLeft(session, count) ==
    [type |-> "user_left",
     payload |-> [userId |-> session.userId, username |-> session.username,
                  onlineCount |-> count]]

\* webSocketClose(ws, code, reason)
WebSocketClose(ws) ==
    /\ sock[ws] \in {"lost", "errored"}
    /\ LET h == sockHub[ws]
           session == Get(sessions[h], ws)
       IN /\ sessions' = [sessions EXCEPT ![h] = Delete(sessions[h], ws)]
          /\ IF session /= {}
             THEN LET message == UserLeft(CHOOSE x \in session : TRUE,
                                          uniqueUserCount(sessions'[h]))
                  IN /\ log' = broadcast(sock, sockHub, h, message, NoConn)
                     /\ lastOp' = Op("close", h, ws, 0, message)
             ELSE /\ log' = <<>>
                  /\ lastOp' = Op("close_unknown", h, ws, 0, NoMsg)
    /\ sock' = [sock EXCEPT ![ws] = "none"]
    /\ sockHub' = [sockHub EXCEPT ![ws] = "none"]
    /\ UNCHANGED <<reqs, dbSessions, members>>
    /\ onlineUsers' = Clients(onlineUsers, log', sock')

\* webSocketError(ws, error); the runtime may still call webSocketClose afterwards.
WebSocketError(ws) ==
    /\ sock[ws] = "lost"
    /\ LET h == sockHub[ws]
       IN /\ sessions' = [sessions EXCEPT ![h] = Delete(sessions[h], ws)]
          /\ lastOp' = Op(IF ws \in DOMAIN sessions[h] THEN "error" ELSE "error_unknown",
                          h, ws, 0, NoMsg)
    /\ log' = <<>>
    /\ sock' = [sock EXCEPT ![ws] = "errored"]
    /\ UNCHANGED <<sockHub, reqs, dbSessions, members>>
    /\ onlineUsers' = Clients(onlineUsers, log', sock')

\* ---------------------------------------------------------------- relay
RelayBodies ==
    { [type |-> "card_created", payload |-> [x |-> 5]] }

\* What a caller may post: the JSON text of an event, or text that is not JSON.
RelayRequests == {JSONStringify(body) : body \in RelayBodies} \cup {Malformed}

\* authMiddleware: the user of the session cookie, if the session is live.
AuthUserIgnoringExpiry(token) ==
    IF token /= Missing THEN {SessionOwner(hashToken(token))} ELSE {}

AuthUser(token) ==
    IF token /= Missing /\ hashToken(token) \in dbSessions
    THEN {SessionOwner(hashToken(token))} ELSE {}

\* app.post('/api/boards/:boardId/broadcast') and the /broadcast branch of
\* BoardRoom.fetch that it calls.  c.req.json() throws on a body that is not
\* JSON; the route has no handler for that and the request ends in a 500.
RelayEndpoint(token, boardId, text) ==
    /\ IF AuthUser(token) = {}
       THEN /\ log' = <<>>
            /\ lastOp' = Op("relay", boardId, NoConn, 401, NoMsg)
       ELSE IF ParseThrows(text)
       THEN /\ log' = <<>>
            /\ lastOp' = Op("relay", boardId, NoConn, 500, NoMsg)
       ELSE LET body == JSONParse(text)
                message == JSONParse(JSONStringify(body))
            IN /\ log' = broadcast(sock, sockHub, broadcastStub(boardId), message, NoConn)
               /\ lastOp' = Op("relay", boardId, NoConn, 200, body)
    /\ UNCHANGED <<sessions, sock, sockHub, reqs, dbSessions, members>>
    /\ onlineUsers' = Clients(onlineUsers, log', sock')

\* broadcastToBoard(env, boardId, message), as a mutation handler calls it
\* after its write: the sends it makes.
broadcastToBoardViaHub(boardId, message) ==
    broadcast(sock, sockHub, broadcastStub(boardId), message, NoConn)

broadcastToBoard(boardId, message) == <<>>

BroadcastToBoard(boardId, message) ==
    /\ log' = broadcastToBoard(boardId, message)
    /\ lastOp' = Op("broadcastToBoard", boardId, NoConn, 0, message)
    /\ UNCHANGED <<sessions, sock, sockHub, reqs, dbSessions, members>>
    /\ onlineUsers' = Clients(onlineUsers, log', sock')

\* ------------------------------------------------------ hosting runtime
\* The runtime discards the idle object while its accepted sockets hibernate
\* and constructs it again: the constructor starts from an empty Map.
Hibernate(h) ==
    /\ \A s \in Slots : reqs[s] /= NoReq => reqs[s].hub /= h
    /\ \E c \in Conns : InList(sock, sockHub, c, h)
    /\ sessions' = [sessions EXCEPT ![h] = <<>>]
    /\ log' = <<>>
    /\ lastOp' = Op("constructor", h, NoConn, 0, NoMsg)
    /\ UNCHANGED <<sock, sockHub, reqs, dbSessions, members>>
    /\ onlineUsers' = Clients(onlineUsers, log', sock')

\* ------------------------------------------------------ persisted state
\* auth.post('/logout'), or expires_at passing: the session row stops matching.
\* The session of tA outlives the run.
SessionEnds(token) ==
    /\ token /= "tA"
    /\ hashToken(token) \in dbSessions
    /\ dbSessions' = dbSessions \ {hashToken(token)}
    /\ log' = <<>>
    /\ lastOp' = Op("session_ends", "none", NoConn, 0, NoMsg)
    /\ UNCHANGED <<sessions, sock, sockHub, reqs, members>>
    /\ onlineUsers' = Clients(onlineUsers, log', sock')

BoardOwner(boardId) == "A"

\* boards.delete('/:boardId/members/:userId') by the member itself
RemoveMember(token, boardId, targetUserId) ==
    /\ AuthUser(token) = {targetUserId}
    /\ <<boardId, targetUserId>> \in members
    /\ IF BoardOwner(boardId) = targetUserId
       THEN /\ lastOp' = Op("remove_member", boardId, NoConn, 400, NoMsg)
            /\ UNCHANGED members
       ELSE /\ lastOp' = Op("remove_member", boardId, NoConn, 200, NoMsg)
            /\ members' = members \ {<<boardId, targetUserId>>}
    /\ log' = <<>>
    /\ UNCHANGED <<sessions, sock, sockHub, reqs, dbSessions>>
    /\ onlineUsers' = Clients(onlineUsers, log', sock')

Next ==
    \/ \E token \in TokenInputs, boardId \in Boards : WsRoute(token, boardId)
    \/ \E h \in Boards, token \in TokenInputs, boardId \in BoardInputs :
          HubUpgrade(h, token, boardId)
    \/ \E s \in Slots : SessionLookup(s)
    \/ \E s \in Slots : AccessLookup(s)
    \/ \E s \in Slots : ClientAborts(s)
    \/ \E s \in Slots : RuntimeCancels(s)
    \/ \E ws \in Conns, frame \in InFrames : WebSocketMessage(ws, frame)
    \/ \E c \in Conns : Disconnect(c)
    \/ \E ws \in Conns : WebSocketClose(ws)
    \/ \E ws \in Conns : WebSocketError(ws)
    \/ \E token \in TokenInputs, boardId \in Boards, text \in RelayRequests :
          RelayEndpoint(token, boardId, text)
    \/ \E boardId \in Boards, message \in RelayBodies : BroadcastToBoard(boardId, message)
    \/ \E h \in Boards : Hibernate(h)
    \/ \E token \in Tokens : SessionEnds(token)
    \/ \E token \in Tokens, boardId \in Boards, u \in Users : RemoveMember(token, boardId, u)

Spec == Init /\ [][Next]_vars

\* Upgrades, closes and errors only: no client message, relay, rebuild of the
\* object or change of the persisted rows.
NextPresence ==
    \/ \E token \in TokenInputs, boardId \in Boards : WsRoute(token, boardId)
    \/ \E s \in Slots : SessionLookup(s)
    \/ \E s \in Slots : AccessLookup(s)
    \/ \E c \in Conns : Disconnect(c)
    \/ \E ws \in Conns : WebSocketClose(ws)
    \/ \E ws \in Conns : WebSocketError(ws)

SpecPresence == Init /\ [][NextPresence]_vars

\* =============================================================== claims
\* Independent account of the quantities the claims speak of.
DistinctUsers(map) == {u \in Users : \E c \in DOMAIN map : map[c].userId = u}
SentTo(lg, c) == {i \in 1..Len(lg) : lg[i].to = c}
DeliveredTo(lg, c) == {i \in SentTo(lg, c) : lg[i].ok}
Joined(st) == st.op = "upgrade" /\ st.status = 101

\* C1: in every reachable state the presence count of every hub equals the
\* number of distinct userIds among the connections in its registry, however
\* many connections one user holds.
C1_PresenceIsDistinctUsers ==
    \A h \in Boards : uniqueUserCount(sessions[h]) = Cardinality(DistinctUsers(sessions[h]))

\* One user holds two registered connections of the same hub.
C1_Witness ==
    \E h \in Boards : \E c, d \in DOMAIN sessions[h] :
        /\ c /= d
        /\ sessions[h][c].userId = sessions[h][d].userId
        /\ uniqueUserCount(sessions[h]) = 1

\* C2: the event built from a non-ping message of a registered connection X
\* is sent to no socket X, and the user_joined of X's upgrade reaches X once
\* only (the direct send), never again through broadcast.
C2_SenderExcluded ==
    /\ lastOp.op = "message" => SentTo(log, lastOp.conn) = {}
    /\ Joined(lastOp) => Cardinality(SentTo(log, lastOp.conn)) = 1

\* A message was broadcast and reached another socket of the hub.
C2_Witness ==
    /\ lastOp.op = "message"
    /\ \E i \in 1..Len(log) : log[i].ok /\ log[i].to /= lastOp.conn

\* C3 as stated: a relay delivers its event to every registered connection.
C3_RelayReachesAllRegistered ==
    (lastOp.op = "relay" /\ lastOp.status = 200) =>
        \A c \in DOMAIN sessions[lastOp.hub] :
            \E i \in DeliveredTo(log, c) : log[i].frame = JSONStringify(lastOp.msg)

\* C3 amended: a relay sends its event verbatim, once, to every registered
\* connection of the hub, none excluded; the send succeeds exactly for those
\* whose transport is still open; the registry is not changed.
C3_RelaySentToAllRegistered ==
    [][(lastOp'.op = "relay" /\ lastOp'.status = 200) =>
          /\ sessions' = sessions
          /\ \A c \in DOMAIN sessions[lastOp'.hub] :
                /\ Cardinality(SentTo(log', c)) = 1
                /\ \A i \in SentTo(log', c) :
                      /\ log'[i].frame = JSONStringify(lastOp'.msg)
                      /\ log'[i].ok <=> sock[c] = "open"
          /\ \A i \in 1..Len(log') : log'[i].frame = JSONStringify(lastOp'.msg)]_vars

\* A relay reached two registered connections of its hub.
C3_Witness ==
    /\ lastOp.op = "relay" /\ lastOp.status = 200
    /\ Cardinality(DOMAIN sessions[lastOp.hub]) >= 2
    /\ \A c \in DOMAIN sessions[lastOp.hub] : DeliveredTo(log, c) /= {}

\* C4: a successful upgrade is one step that inserts the new connection with
\* its identity, sends it first exactly one user_joined with its own userId
\* and username and the count of the registry after the insertion, then sends
\* the same event once to every other socket of the hub; into an empty
\* registry that is onlineCount 1 and registry size 1.
C4_UpgradeSequence ==
    [][Joined(lastOp') =>
        LET h == lastOp'.hub
            c == lastOp'.conn
            ev == [type |-> "user_joined",
                   payload |-> [userId |-> sessions'[h][c].userId,
                                username |-> sessions'[h][c].username,
                                onlineCount |-> Cardinality(DistinctUsers(sessions'[h]))]]
        IN /\ c \notin DOMAIN sessions[h]
           /\ DOMAIN sessions'[h] = (DOMAIN sessions[h]) \cup {c}
           /\ \A d \in DOMAIN sessions[h] : sessions'[h][d] = sessions[h][d]
           /\ Len(log') >= 1
           /\ log'[1] = [to |-> c, frame |-> JSONStringify(ev), ok |-> TRUE]
           /\ SentTo(log', c) = {1}
           /\ \A i \in 1..Len(log') : log'[i].frame = JSONStringify(ev)
           /\ \A d \in Conns \ {c} :
                 Cardinality(SentTo(log', d)) =
                    IF InList(sock', sockHub', d, h) THEN 1 ELSE 0
           /\ (DOMAIN sessions[h] = {} =>
                 /\ ev.payload.onlineCount = 1
                 /\ Cardinality(DOMAIN sessions'[h]) = 1)]_vars

\* A second user joined a hub and the first one was told.
C4_Witness ==
    /\ Joined(lastOp)
    /\ Len(log) = 2
    /\ log[2].ok
    /\ log[2].frame[2].payload.onlineCount = 2

\* C5: an upgrade request whose token or boardId is missing or empty is
\* answered 400 on entry: no lookup is started, no registry or socket is
\* touched and nothing is sent.
C5_MissingParameterRejected ==
    [][\A token \in TokenInputs, boardId \in BoardInputs, h \in Boards :
          ( /\ token = Missing \/ boardId = Missing
            /\ \/ HubUpgrade(h, token, boardId)
               \/ (boardId = h /\ WsRoute(token, boardId)) )
          => /\ lastOp'.status = 400
             /\ reqs' = reqs
             /\ sessions' = sessions
             /\ sock' = sock
             /\ log' = <<>>]_vars

\* The hub turned down an upgrade without parameters while it had a
\* registered connection.
C5_Witness ==
    /\ lastOp.op = "upgrade" /\ lastOp.status = 400
    /\ DOMAIN sessions[lastOp.hub] /= {}
    /\ \A s \in Slots : reqs[s] = NoReq

\* C6: an upgrade whose token has no live session row is answered 401 when
\* the session query returns: the request ends there without a membership
\* query, registry and presence count stay as they were, nothing is sent.
C6_InvalidSessionRejected ==
    [][\A s \in Slots :
          ( /\ reqs[s] /= NoReq
            /\ reqs[s].pc = "session"
            /\ hashToken(reqs[s].token) \notin dbSessions
            /\ SessionLookup(s) )
          => /\ lastOp'.status = 401
             /\ reqs'[s] = NoReq
             /\ sessions' = sessions
             /\ sock' = sock
             /\ \A h \in Boards :
                   Cardinality(DistinctUsers(sessions'[h])) =
                   Cardinality(DistinctUsers(sessions[h]))
             /\ log' = <<>>]_vars

\* An upgrade was answered 401 by a hub that had a registered connection.
C6_Witness ==
    /\ lastOp.op = "upgrade" /\ lastOp.status = 401
    /\ DOMAIN sessions[lastOp.hub] /= {}
    /\ dbSessions /= {hashToken("tA"), hashToken("tB")}

\* C7: an upgrade whose token resolves to a user without a board_members row
\* for the requested board is answered 403; registry and presence count stay
\* as they were and nothing is sent.
C7_NonMemberRejected ==
    [][\A s \in Slots :
          ( /\ reqs[s] /= NoReq
            /\ reqs[s].pc = "access"
            /\ <<reqs[s].boardId, reqs[s].session.user_id>> \notin members
            /\ AccessLookup(s) )
          => /\ lastOp'.status = 403
             /\ reqs'[s] = NoReq
             /\ sessions' = sessions
             /\ sock' = sock
             /\ \A h \in Boards :
                   Cardinality(DistinctUsers(sessions'[h])) =
                   Cardinality(DistinctUsers(sessions[h]))
             /\ log' = <<>>]_vars

\* An upgrade was answered 403 by a hub that had a registered connection.
C7_Witness ==
    /\ lastOp.op = "upgrade" /\ lastOp.status = 403
    /\ DOMAIN sessions[lastOp.hub] /= {}

\* C8: a successful upgrade adds exactly one connection to the registry of
\* its hub; the presence count stays the same when the user already holds a
\* registered connection there and rises by one otherwise, so two connections
\* of one user give registry size 2 and presence count 1.
C8_UpgradeGrowth ==
    [][Joined(lastOp') =>
        LET h == lastOp'.hub
            c == lastOp'.conn
            u == sessions'[h][c].userId
            already == \E d \in DOMAIN sessions[h] : sessions[h][d].userId = u
        IN /\ Cardinality(DOMAIN sessions'[h]) = Cardinality(DOMAIN sessions[h]) + 1
           /\ uniqueUserCount(sessions'[h]) =
                 uniqueUserCount(sessions[h]) + (IF already THEN 0 ELSE 1)
           /\ lastOp'.msg.payload.onlineCount =
                 Cardinality(DistinctUsers(sessions[h])) + (IF already THEN 0 ELSE 1)
           /\ \A g \in Boards \ {h} : sessions'[g] = sessions[g]]_vars

\* The second connection of a user has just been accepted: registry size 2,
\* presence count 1.
C8_Witness ==
    /\ Joined(lastOp)
    /\ Cardinality(DOMAIN sessions[lastOp.hub]) = 2
    /\ uniqueUserCount(sessions[lastOp.hub]) = 1
    /\ lastOp.msg.payload.onlineCount = 1

\* C9: webSocketClose for a registered connection removes it from the
\* registry and sends every remaining registered connection a user_left with
\* the userId and username of the closed connection and the presence count
\* of the registry after the removal.
C9_CloseAnnounced ==
    [][\A ws \in Conns :
          ( /\ sock[ws] /= "none"
            /\ ws \in DOMAIN sessions[sockHub[ws]]
            /\ WebSocketClose(ws) )
          => LET h == sockHub[ws]
                 left == sessions[h][ws]
                 others == (DOMAIN sessions[h]) \ {ws}
                 stays == \E d \in others : sessions[h][d].userId = left.userId
                 ev == [type |-> "user_left",
                        payload |-> [userId |-> left.userId, username |-> left.username,
                                     onlineCount |-> Cardinality(DistinctUsers(sessions[h]))
                                                     - (IF stays THEN 0 ELSE 1)]]
             IN /\ DOMAIN sessions'[h] = others
                /\ \A d \in others : sessions'[h][d] = sessions[h][d]
                /\ ev.payload.onlineCount = Cardinality(DistinctUsers(sessions'[h]))
                /\ \A d \in others :
                      /\ Cardinality(SentTo(log', d)) = 1
                      /\ \A i \in SentTo(log', d) :
                            /\ log'[i].frame = JSONStringify(ev)
                            /\ log'[i].ok <=> sock[d] = "open"]_vars

\* A connection closed and the one that remains received its user_left.
C9_Witness ==
    /\ lastOp.op = "close"
    /\ \E d \in DOMAIN sessions[lastOp.hub] :
          \E i \in DeliveredTo(log, d) : log[i].frame[2].type = "user_left"

\* C10: webSocketError for a registered connection removes it from the
\* registry and sends every remaining registered connection a user_left with
\* its identity and the new count, as webSocketClose does.
C10_ErrorAnnounced ==
    [][\A ws \in Conns :
          ( /\ sock[ws] /= "none"
            /\ ws \in DOMAIN sessions[sockHub[ws]]
            /\ WebSocketError(ws) )
          => LET h == sockHub[ws]
                 left == sessions[h][ws]
                 others == (DOMAIN sessions[h]) \ {ws}
                 ev == [type |-> "user_left",
                        payload |-> [userId |-> left.userId, username |-> left.username,
                                     onlineCount |-> Cardinality(DistinctUsers(sessions'[h]))]]
             IN /\ DOMAIN sessions'[h] = others
                /\ \A d \in others :
                      \E i \in SentTo(log', d) : log'[i].frame = JSONStringify(ev)]_vars

\* What the claims on client messages expect of the event built for a frame.
WellFormed(frame) == ~ParseThrows(frame)
Ping == JSONStringify([type |-> "ping", payload |-> [x |-> 0]])
ExpectedPayload(inbound, type, session) ==
    LET added == IF type \in {"cursor_move", "card_drag_start", "card_drag_end"}
                 THEN {"userId", "username"} ELSE {"userId"}
    IN [k \in (DOMAIN inbound) \cup added |->
          IF k = "userId" THEN session.userId
          ELSE IF k = "username" /\ k \in added THEN session.username
          ELSE inbound[k]]
IsMessageStep(ws, frame) ==
    /\ lastOp'.conn = ws
    /\ lastOp'.op \in {"message", "ping", "message_error", "message_dropped"}
    /\ sock[ws] /= "none"
    /\ ws \in DOMAIN sessions[sockHub[ws]]
    /\ WebSocketMessage(ws, frame)

\* C11 as stated: every other connection of the hub receives the event built
\* from a well-formed non-ping message.
C11_MessageReachesAllOthers ==
    [][\A ws \in Conns, frame \in InFrames :
          (IsMessageStep(ws, frame) /\ WellFormed(frame) /\ frame /= Ping)
          => \A d \in Conns \ {ws} :
                InList(sock, sockHub, d, sockHub[ws]) => DeliveredTo(log', d) /= {}]_vars

\* C11 amended: the event built from a well-formed non-ping message of a
\* registered connection has the inbound type and the inbound payload fields
\* plus the sender's userId (and username for the cursor and drag types); it is
\* sent once to every other socket of the hub and to nothing else, the send
\* succeeding exactly where the transport is still open.
C11_MessageForwarded ==
    [][\A ws \in Conns, frame \in InFrames :
          (IsMessageStep(ws, frame) /\ WellFormed(frame) /\ frame /= Ping)
          => LET h == sockHub[ws]
                 data == JSONParse(frame)
                 ev == [type |-> data.type,
                        payload |-> ExpectedPayload(data.payload, data.type, sessions[h][ws])]
             IN /\ SentTo(log', ws) = {}
                /\ \A i \in 1..Len(log') : log'[i].frame = JSONStringify(ev)
                /\ \A d \in Conns \ {ws} :
                      /\ Cardinality(SentTo(log', d)) =
                            IF InList(sock, sockHub, d, h) THEN 1 ELSE 0
                      /\ \A i \in SentTo(log', d) : log'[i].ok <=> sock[d] = "open"]_vars

\* A cursor_move was forwarded to another socket with the sender's name added.
C11_Witness ==
    /\ lastOp.op = "message"
    /\ lastOp.msg.type = "cursor_move"
    /\ \E i \in 1..Len(log) :
          /\ log[i].ok
          /\ log[i].to /= lastOp.conn
          /\ log[i].frame[2].payload.username = sessions[lastOp.hub][lastOp.conn].username

\* C12: a ping from a registered connection gets exactly one pong, sent to
\* that connection; nothing is sent to any other socket and the registry is
\* not changed.
C12_PingAnsweredOnly ==
    [][\A ws \in Conns :
          IsMessageStep(ws, Ping)
          => /\ log' = <<[to |-> ws, frame |-> JSONStringify([type |-> "pong"]), ok |-> TRUE]>>
             /\ sessions' = sessions]_vars

\* A ping was answered while another connection was registered in the hub.
C12_Witness ==
    /\ lastOp.op = "ping"
    /\ Len(log) = 1
    /\ \E d \in DOMAIN sessions[lastOp.hub] : d /= lastOp.conn /\ sock[d] = "open"

\* C13: a frame that is not JSON, from a registered connection, makes the
\* hub send nothing; the handler returns normally, the sender stays
\* registered with its identity and the presence count is what it was.
C13_MalformedDropped ==
    [][\A ws \in Conns, frame \in InFrames :
          (IsMessageStep(ws, frame) /\ ~WellFormed(frame))
          => /\ log' = <<>>
             /\ lastOp'.status = 0
             /\ sock'[ws] = "open"
             /\ ws \in DOMAIN sessions'[sockHub[ws]]
             /\ sessions' = sessions
             /\ \A h \in Boards :
                   Cardinality(DistinctUsers(sessions'[h])) =
                   Cardinality(DistinctUsers(sessions[h]))]_vars

\* A malformed frame was dropped in a hub with two registered connections.
C13_Witness ==
    /\ lastOp.op = "message_error"
    /\ lastOp.conn \in DOMAIN sessions[lastOp.hub]
    /\ Cardinality(DOMAIN sessions[lastOp.hub]) = 2

\* C14: webSocketClose for a socket that is not in the registry (removed by
\* webSocketError, or never restored after the object was rebuilt) leaves
\* every registry as it is and sends nothing.
C14_CloseIdempotent ==
    [][\A ws \in Conns :
          ( /\ lastOp'.conn = ws
            /\ lastOp'.op \in {"close", "close_unknown"}
            /\ sock[ws] /= "none"
            /\ ws \notin DOMAIN sessions[sockHub[ws]]
            /\ WebSocketClose(ws) )
          => /\ sessions' = sessions
             /\ log' = <<>>]_vars

\* The close that follows an error ran while another connection was registered.
C14_Witness ==
    /\ lastOp.op = "close_unknown"
    /\ log = <<>>
    /\ \E d \in DOMAIN sessions[lastOp.hub] : sock[d] = "open"

\* C15: the hub is a function of the boardId alone: a connection accepted
\* for an upgrade with boardId B belongs to the hub of B, whichever request
\* came first and however often, and a relay for B runs its broadcast over
\* exactly the sockets that hub holds, so it is sent to exactly the
\* connections that upgraded with boardId B and to none of another board.
C15_SameHubPerBoard ==
    [][/\ \A s \in Slots :
             (Joined(lastOp') /\ reqs[s] /= NoReq /\ AccessLookup(s))
             => /\ sockHub'[lastOp'.conn] = reqs[s].boardId
                /\ lastOp'.conn \in DOMAIN sessions'[reqs[s].boardId]
                /\ \A g \in Boards \ {reqs[s].boardId} : sessions'[g] = sessions[g]
       /\ \A token \in TokenInputs, boardId \in Boards, text \in RelayRequests :
             (lastOp'.op = "relay" /\ lastOp'.status = 200
              /\ RelayEndpoint(token, boardId, text))
             => {log'[i].to : i \in 1..Len(log')} =
                   {c \in Conns : sockHub[c] = boardId /\ sock[c] /= "none"}]_vars

\* A relay for one board went to its connection while the other board had a
\* connection of its own.
C15_Witness ==
    /\ lastOp.op = "relay" /\ lastOp.status = 200
    /\ Len(log) = 1 /\ log[1].ok
    /\ sockHub[log[1].to] = lastOp.hub
    /\ \E d \in Conns : sock[d] = "open" /\ sockHub[d] \in Boards \ {lastOp.hub}

\* C16 as stated: the relay endpoint acknowledges every request.
C16_RelayAlwaysAcknowledged ==
    lastOp.op = "relay" => lastOp.status = 200

\* C16 amended: the relay endpoint acknowledges every request of a caller
\* with a live session whose body is JSON, whatever the hub holds (no socket,
\* or sockets whose send throws); a caller without a live session gets 401 and
\* a body that is not JSON is not acknowledged, and in both cases nothing is sent.
C16_RelayAcknowledged ==
    [][\A token \in TokenInputs, boardId \in Boards, text \in RelayRequests :
          (lastOp'.op = "relay" /\ RelayEndpoint(token, boardId, text))
          => LET live == token /= Missing /\ hashToken(token) \in dbSessions
             IN /\ (live /\ WellFormed(text)) => lastOp'.status = 200
                /\ ~live => (lastOp'.status = 401 /\ log' = <<>>)
                /\ (live /\ ~WellFormed(text)) => (lastOp'.status /= 200 /\ log' = <<>>)
                /\ sessions' = sessions]_vars

\* A relay was acknowledged although one of its sends threw.
C16_Witness ==
    /\ lastOp.op = "relay" /\ lastOp.status = 200
    /\ \E i \in 1..Len(log) : ~log[i].ok

C19_IdentityResolvable ==
    \A c \in Conns : sock[c] = "open" => c \in DOMAIN sessions[sockHub[c]]

\* C20: when a send of a broadcast throws, every other socket of the hub that
\* is open and not excluded still gets the event, the handler ends without an
\* error, and the registry changes only by what the handler itself does (the
\* socket whose send threw is neither removed nor added).
C20_FailureIsolated ==
    [][(\E i \in 1..Len(log') : ~log'[i].ok) =>
          LET h == lastOp'.hub
              exclude == IF lastOp'.op \in {"message", "upgrade"} THEN lastOp'.conn ELSE NoConn
          IN /\ \A d \in Conns \ {exclude} :
                   (sockHub[d] = h /\ sock[d] = "open")
                   => \E j \in DeliveredTo(log', d) : log'[j].frame = JSONStringify(lastOp'.msg)
             /\ lastOp'.status \in {0, 101, 200}
             /\ \A i \in 1..Len(log') :
                   (~log'[i].ok /\ ~(lastOp'.op = "close" /\ log'[i].to = lastOp'.conn))
                   => \A g \in Boards :
                         /\ (log'[i].to \in DOMAIN sessions[g]) <=>
                               (log'[i].to \in DOMAIN sessions'[g])
             /\ lastOp'.op \in {"relay", "message"} => sessions' = sessions]_vars

\* A broadcast whose first send threw went on to deliver to the next socket.
C20_Witness ==
    /\ Len(log) = 2
    /\ ~log[1].ok
    /\ log[2].ok
    /\ sock[log[1].to] = "lost"
    /\ log[1].to \in DOMAIN sessions[sockHub[log[1].to]]

\* C21: an upgrade whose client went away while it waited for the session or
\* the membership lookup registers nothing: the step that resumes it leaves
\* every registry and presence count as it was and sends no user_joined.
C21_AbortedUpgradeNotRegistered ==
    [][\A s \in Slots :
          ( /\ lastOp'.op \in {"upgrade", "upgrade_session"}
            /\ reqs[s] /= NoReq
            /\ reqs[s].gone
            /\ (SessionLookup(s) \/ AccessLookup(s)) )
          => /\ sessions' = sessions
             /\ \A h \in Boards :
                   Cardinality(DistinctUsers(sessions'[h])) =
                   Cardinality(DistinctUsers(sessions[h]))
             /\ log' = <<>>]_vars

\* C22: a message from a socket that is not in the registry of its hub is
\* dropped whatever it holds: nothing is sent to any socket, not even a pong,
\* and every registry stays as it is.
C22_UnregisteredMessageDropped ==
    [][\A ws \in Conns, frame \in InFrames :
          ( /\ lastOp'.conn = ws
            /\ lastOp'.op \in {"message", "ping", "message_error", "message_dropped"}
            /\ sock[ws] /= "none"
            /\ ws \notin DOMAIN sessions[sockHub[ws]]
            /\ WebSocketMessage(ws, frame) )
          => /\ log' = <<>>
             /\ sessions' = sessions]_vars

\* A message of an unregistered socket was dropped while another connection
\* of the hub was registered and open.
C22_Witness ==
    /\ lastOp.op = "message_dropped"
    /\ log = <<>>
    /\ sock[lastOp.conn] = "open"
    /\ \E d \in DOMAIN sessions[lastOp.hub] : d /= lastOp.conn /\ sock[d] = "open"

\* The handlers that run inside one hub, and the relay that addresses one.
HubOps ==
    {"upgrade", "upgrade_begin", "upgrade_session", "message", "ping", "message_error",
     "message_dropped", "close", "close_unknown", "error", "error_unknown", "relay"}

\* C23: a connection is in the registry of at most one hub, the one whose
\* state accepted it, and an upgrade, message, close, error or relay on one
\* hub leaves the registry and presence count of every other hub as they were
\* and sends nothing to a socket of another hub.
C23_HubsIndependent ==
    [][/\ \A c \in Conns, g \in Boards :
             c \in DOMAIN sessions'[g] => sockHub'[c] = g
       /\ lastOp'.op \in HubOps =>
             \A g \in Boards \ {lastOp'.hub} :
                /\ sessions'[g] = sessions[g]
                /\ Cardinality(DistinctUsers(sessions'[g])) =
                      Cardinality(DistinctUsers(sessions[g]))
                /\ \A i \in 1..Len(log') :
                      sockHub[log'[i].to] /= g /\ sockHub'[log'[i].to] /= g]_vars

\* A connection joined one hub while the hub of the other board had an open
\* registered connection.
C23_Witness ==
    /\ Joined(lastOp)
    /\ \E g \in Boards \ {lastOp.hub} :
          \E d \in DOMAIN sessions[g] : sock[d] = "open" /\ sockHub[d] = g

\* The handlers that call ws.send.
SendingOps == {"upgrade", "message", "ping", "close", "relay"}

C25_HubReusable ==
    [][/\ (lastOp'.op \in {"close", "error"} /\ DOMAIN sessions[lastOp'.hub] = {lastOp'.conn})
             => /\ sessions'[lastOp'.hub] = <<>>
                /\ uniqueUserCount(sessions'[lastOp'.hub]) = 0
       /\ (Joined(lastOp') /\ DOMAIN sessions[lastOp'.hub] = {})
             => LET h == lastOp'.hub
                    c == lastOp'.conn
                IN /\ DOMAIN sessions'[h] = {c}
                   /\ uniqueUserCount(sessions'[h]) = 1
                   /\ lastOp'.msg.payload.onlineCount = 1
                   /\ lastOp'.msg.payload.userId = sessions'[h][c].userId
                   /\ log'[1] = [to |-> c, frame |-> JSONStringify(lastOp'.msg), ok |-> TRUE]
                   /\ sockHub'[c] = h /\ sock'[c] = "open"]_vars

\* A hub that had lost its only connection to an error accepted a new one:
\* the old socket is still held by the runtime, the registry holds the new
\* connection alone.
C25_Witness ==
    /\ Joined(lastOp)
    /\ DOMAIN sessions[lastOp.hub] = {lastOp.conn}
    /\ lastOp.msg.payload.onlineCount = 1
    /\ \E d \in Conns \ {lastOp.conn} : sockHub[d] = lastOp.hub /\ sock[d] = "errored"

\* C26: every event the hub builds from a client message carries the
\* registered userId of the sender, whatever userId the inbound payload held,
\* and, whenever it carries a username at all, the registered username of the
\* sender, for every event type.
C26_IdentityNotSpoofable ==
    lastOp.op = "message" =>
        LET session == sessions[lastOp.hub][lastOp.conn]
            payload == lastOp.msg.payload
        IN /\ payload.userId = session.userId
           /\ "username" \in DOMAIN payload => payload.username = session.username

\* C27: every user_joined or user_left delivered to a connection was made by
\* the upgrade or close handling of the hub, and its onlineCount is the
\* presence count of the hub when it was sent; no client message produces one.
C27_PresenceNotForgeable ==
    \A i \in 1..Len(log) :
        (log[i].ok /\ log[i].frame[2].type \in PresenceTypes)
        => /\ lastOp.op \in {"upgrade", "close"}
           /\ log[i].frame[2].payload.onlineCount = uniqueUserCount(sessions[lastOp.hub])

\* A hub with no upgrade in progress and no socket waiting for its close or
\* error handler.
Quiescent(h) ==
    /\ \A s \in Slots : reqs[s] /= NoReq => reqs[s].hub /= h
    /\ \A c \in Conns : sockHub[c] = h => sock[c] = "open"

\* C28: after upgrades, closes and errors only, whenever a hub is quiescent
\* the count last shown to every registered connection by a user_joined or
\* user_left is the presence count of the hub.
C28_PresenceConverges ==
    \A h \in Boards :
        Quiescent(h) =>
            \A c \in DOMAIN sessions[h] : onlineUsers[c] = uniqueUserCount(sessions[h])

\* C29: an event reaches a connection of a board only from a connection
\* registered on that board or from a relay request of a member of the board;
\* the relay request of an authenticated user without a board_members row for
\* the board delivers nothing.
C29_OnlyMembersInject ==
    [][/\ (lastOp'.op = "message" /\ \E i \in 1..Len(log') : log'[i].ok)
             => lastOp'.conn \in DOMAIN sessions[lastOp'.hub]
       /\ \A token \in TokenInputs, boardId \in Boards, text \in RelayRequests :
             ( /\ lastOp'.op = "relay"
               /\ RelayEndpoint(token, boardId, text)
               /\ \E i \in 1..Len(log') : log'[i].ok )
             => \E u \in AuthUser(token) : <<boardId, u>> \in members]_vars

\* C30: the registry of a hub changes in two ways only: a successful upgrade
\* adds the accepted connection and nothing else, and webSocketClose or
\* webSocketError removes the connection it is called for and nothing else;
\* every other step (message, relay, rejected upgrade, end of a session,
\* removal of a member) leaves every registry and every stored identity as
\* it was.
C30_RegistryFrame ==
    [][\A h \in Boards :
          sessions'[h] /= sessions[h] =>
             LET c == lastOp'.conn
             IN /\ lastOp'.hub = h
                /\ \/ /\ Joined(lastOp')
                      /\ c \notin DOMAIN sessions[h]
                      /\ DOMAIN sessions'[h] = (DOMAIN sessions[h]) \cup {c}
                      /\ \A d \in DOMAIN sessions[h] : sessions'[h][d] = sessions[h][d]
                   \/ /\ lastOp'.op \in {"close", "error"}
                      /\ c \in DOMAIN sessions[h]
                      /\ DOMAIN sessions'[h] = (DOMAIN sessions[h]) \ {c}
                      /\ \A d \in DOMAIN sessions'[h] : sessions'[h][d] = sessions[h][d]]_vars

====
